---- MODULE Spec2Model ----
(***************************************************************************)
(* A model of kube-rs' runtime Reflector (src/kube-rs/src/runtime/         *)
(* reflector.rs): a mutex-guarded cache State { data, version } that is    *)
(* advanced by poll() from a watch stream, replaced by reset() from a      *)
(* list, and read by state().                                              *)
(*                                                                         *)
(* Option<T> is modelled as a sequence of length at most one: None is <<>> *)
(* and Some(x) is <<x>>.  A BTreeMap is a function whose domain is the set *)
(* of its keys.  Strings are TLA+ strings.                                 *)
(***************************************************************************)
EXTENDS Naturals, Sequences, FiniteSets, TLC

VARIABLES
    data,              \* State.data: Cache<K> = BTreeMap<ObjectId, K>
    version,           \* State.version: String
    lock,              \* owner of the Mutex around State, or "free"
    p_pc,              \* poll(): position of the calling thread
    resource_version,  \* poll(): the local read at line 53
    events,            \* poll(): what is left of the iterator returned by watch
    ev,                \* poll(): the item bound by the for loop, as Option
    p_ret,             \* poll(): the Result returned, as Option
    r_pc,              \* reset(): position of the calling thread
    r_res,             \* reset(): the list response bound at line 126, as Option
    r_new,             \* reset(): the (data, version) pair bound at line 116, as Option
    r_ret,             \* reset(): the Result returned, as Option
    s_pc,              \* state(): position of the calling thread
    s_ret,             \* state(), get(), get_within(): the value returned, as Option
    s_args,            \* get(), get_within(): the call and its arguments, as Option
    api_namespace,     \* Reflector.api.resource.namespace: Option<String>
    batch,             \* history: the whole sequence the current watch delivers
    data0,             \* history: State.data when the current watch began
    epochMax,          \* history: the highest marker observed since the last snapshot
    epochOrdered,      \* history: no marker of the epoch was lower than one before it
    r_old,             \* history: the State when the current reset() was called, as
                       \* Option; None once poll() has changed data since that call
    s_overlap,         \* history: the current state() call was made while the
                       \* current reset() was in progress
    p_stale,           \* history: reset() has replaced the State since the current
                       \* poll() read the version its watch resumes from
    age                \* history: "new" until poll() or reset() is first called,
                       \* "first_poll" while that first call is a poll() in
                       \* progress and no reset() has been called, then "used"

vars == <<data, version, lock, p_pc, resource_version, events, ev, p_ret,
          r_pc, r_new, r_ret, s_pc, s_ret, batch, data0, epochMax,
          epochOrdered, r_res, r_old, s_overlap, s_args, api_namespace, age, p_stale>>

pollVars == <<p_pc, resource_version, events, ev, p_ret, batch, data0>>
resetVars == <<r_pc, r_res, r_new, r_ret>>
stateVars == <<s_pc, s_ret, s_overlap, s_args>>
epochVars == <<epochMax, epochOrdered>>
apiVars == <<api_namespace>>

-----------------------------------------------------------------------------
(* Bounds of the model. *)

\* longest sequence of items one watch call delivers
MaxEvents == 2
\* longest list of items one list call returns
MaxItems == 2
\* the same two bounds for the runs in which the calls interleave
ConcMaxEvents == 1
ConcMaxItems == 1

-----------------------------------------------------------------------------
(* Option, strings and the objects of the remote collection. *)

None == <<>>
Some(x) == <<x>>

\* String::default(), the value unwrap_or_default() gives for None
StringDefault == ""

\* the decimal digits, by value
Digits == <<"0", "1", "2", "3", "4", "5", "6", "7", "8", "9">>

\* n.to_string() for a one-digit n
to_string(n) == Digits[n + 1]

\* an object of type K, seen through Meta: name, namespace, resource_ver;
\* spec stands for the rest of the object
Obj(n, ns, rv, sp) ==
    [name |-> n, namespace |-> ns, resource_ver |-> rv, spec |-> sp]

\* the objects the remote collaborator may deliver
Objects ==
    { Obj("a", Some("x"), Some("2"), "v1"),
      Obj("a", Some("x"), Some("1"), "v2"),
      Obj("b", None, None, "v1") }

\* the version markers a list result may carry
ListVersions == {None, Some("1"), Some("3")}

\* ObjectId::key_for
key_for(o) == [name |-> o.name, namespace |-> o.namespace]

\* the empty BTreeMap
EmptyCache == [k \in {} |-> k]

\* BTreeMap::insert
Insert(d, k, v) == [x \in (DOMAIN d) \cup {k} |-> IF x = k THEN v ELSE d[x]]

\* BTreeMap::remove
Remove(d, k) == [x \in (DOMAIN d) \ {k} |-> d[x]]

-----------------------------------------------------------------------------
(* The items of a watch stream: Result<WatchEvent<K>>. *)

EventKinds == {"Added", "Modified", "Deleted", "Bookmark"}

\* Ok(WatchEvent::Error(e))
ErrorEvent == [kind |-> "Error"]
\* Err(e)
TransportErr == [kind |-> "Err"]

WatchItems ==
    [kind : EventKinds, obj : Objects] \cup {ErrorEvent, TransportErr}

\* the sequences over S of length at most n
SeqsUpTo(S, n) == UNION {[1..k -> S] : k \in 0..n}

\* what one watch call may deliver
Batches == SeqsUpTo(WatchItems, MaxEvents)

\* what one list call may return: items and metadata.resource_version
ListResults ==
    [items : SeqsUpTo(Objects, MaxItems), resource_version : ListVersions]

\* the inputs of the runs in which the calls interleave
ConcItems ==
    { [kind |-> "Added", obj |-> Obj("a", Some("x"), Some("2"), "v1")],
      [kind |-> "Deleted", obj |-> Obj("b", None, None, "v1")],
      ErrorEvent }

ConcBatches == SeqsUpTo(ConcItems, ConcMaxEvents)

ConcListResults ==
    [items : SeqsUpTo({Obj("a", Some("x"), Some("1"), "v2"), Obj("b", None, None, "v1")},
                      ConcMaxItems),
     resource_version : {None, Some("3")}]

-----------------------------------------------------------------------------
(* poll(): the two match statements of the loop body. *)

\* TrackVersion, but a Deleted event leaves the version alone
TrackVersion_SkipsDeleted(v, e) ==
    IF e.kind \in EventKinds \ {"Deleted"} /\ e.obj.resource_ver # None
    THEN e.obj.resource_ver[1]
    ELSE v

\* TrackVersion, but a Bookmark event leaves the version alone
TrackVersion_SkipsBookmark(v, e) ==
    IF e.kind \in EventKinds \ {"Bookmark"} /\ e.obj.resource_ver # None
    THEN e.obj.resource_ver[1]
    ELSE v

\* lines 60-72: the version after the first match
TrackVersion(v, e) ==
    IF e.kind \in EventKinds /\ e.obj.resource_ver # None
    THEN e.obj.resource_ver[1]
    ELSE v

\* ApplyData, but Added is insert(): it overwrites an entry already there
ApplyData_AddedOverwrites(d, e) ==
    CASE e.kind = "Added" -> Insert(d, key_for(e.obj), e.obj)
      [] e.kind = "Modified" ->
            IF key_for(e.obj) \in DOMAIN d
            THEN Insert(d, key_for(e.obj), e.obj)
            ELSE d
      [] e.kind = "Deleted" -> Remove(d, key_for(e.obj))
      [] OTHER -> d

\* ApplyData, but Modified is insert(): it adds an entry that is not there
ApplyData_ModifiedUpserts(d, e) ==
    CASE e.kind = "Added" ->
            IF key_for(e.obj) \in DOMAIN d THEN d
            ELSE Insert(d, key_for(e.obj), e.obj)
      [] e.kind = "Modified" -> Insert(d, key_for(e.obj), e.obj)
      [] e.kind = "Deleted" -> Remove(d, key_for(e.obj))
      [] OTHER -> d

\* ApplyData, but Deleted removes the entry only when it holds the deleted object
ApplyData_DeletedIfSame(d, e) ==
    CASE e.kind = "Added" ->
            IF key_for(e.obj) \in DOMAIN d THEN d
            ELSE Insert(d, key_for(e.obj), e.obj)
      [] e.kind = "Modified" ->
            IF key_for(e.obj) \in DOMAIN d
            THEN Insert(d, key_for(e.obj), e.obj)
            ELSE d
      [] e.kind = "Deleted" ->
            IF key_for(e.obj) \in DOMAIN d /\ d[key_for(e.obj)] = e.obj
            THEN Remove(d, key_for(e.obj))
            ELSE d
      [] OTHER -> d

\* ApplyData, but the Bookmark arm falls into the Added arm
ApplyData_BookmarkAdds(d, e) ==
    CASE e.kind \in {"Added", "Bookmark"} ->
            IF key_for(e.obj) \in DOMAIN d THEN d
            ELSE Insert(d, key_for(e.obj), e.obj)
      [] e.kind = "Modified" ->
            IF key_for(e.obj) \in DOMAIN d
            THEN Insert(d, key_for(e.obj), e.obj)
            ELSE d
      [] e.kind = "Deleted" -> Remove(d, key_for(e.obj))
      [] OTHER -> d

\* lines 76-93: the data after the second match, for the four object events
ApplyData(d, e) ==
    CASE e.kind = "Added" ->
            IF key_for(e.obj) \in DOMAIN d THEN d
            ELSE Insert(d, key_for(e.obj), e.obj)
      [] e.kind = "Modified" ->
            IF key_for(e.obj) \in DOMAIN d
            THEN Insert(d, key_for(e.obj), e.obj)
            ELSE d
      [] e.kind = "Deleted" -> Remove(d, key_for(e.obj))
      [] OTHER -> d

\* LoopReturn, but an Error event is logged and the loop goes on
LoopReturn_SkipsErrorEvent(e) ==
    CASE e.kind = "Err" -> Some("ErrTransport")
      [] OTHER -> None

\* lines 94-101: the value returned from inside the loop, if any
LoopReturn(e) ==
    CASE e.kind = "Error" -> Some("ErrApi")
      [] e.kind = "Err" -> Some("ErrTransport")
      [] OTHER -> None

-----------------------------------------------------------------------------
(* reset(): get_full_resource_entries. *)

\* BuildCache, but an item whose identity is already in the map is skipped
RECURSIVE BuildCache_KeepsFirst(_, _)
BuildCache_KeepsFirst(d, items) ==
    IF items = <<>> THEN d
    ELSE BuildCache_KeepsFirst(
             IF key_for(Head(items)) \in DOMAIN d THEN d
             ELSE Insert(d, key_for(Head(items)), Head(items)),
             Tail(items))

\* lines 134-138: the map built from the listed items, in list order
RECURSIVE BuildCache(_, _)
BuildCache(d, items) ==
    IF items = <<>> THEN d
    ELSE BuildCache(Insert(d, key_for(Head(items)), Head(items)), Tail(items))

\* ListVersion, but an absent marker gives the version of State::default
ListVersion_Zero(rv) == IF rv = None THEN to_string(0) ELSE rv[1]

\* line 127
ListVersion(rv) == IF rv = None THEN StringDefault ELSE rv[1]

\* lines 126-145: the pair returned for a list result
FullResourceEntries(res) ==
    [data |-> BuildCache(EmptyCache, res.items),
     version |-> ListVersion(res.resource_version)]

-----------------------------------------------------------------------------
(* state(): the values of the map in key order. *)

\* the characters of the names and namespaces, in byte order
Alphabet == <<"a", "b", "x", "y">>

\* str::cmp on one-character strings
StrLess(s, t) ==
    \E i, j \in DOMAIN Alphabet : Alphabet[i] = s /\ Alphabet[j] = t /\ i < j

\* Option<String>::cmp: None is below every Some
OptLess(a, b) ==
    \/ a = None /\ b # None
    \/ a # None /\ b # None /\ StrLess(a[1], b[1])

\* IdLess, but the keys without namespace come first, and then the name and
\* the namespace decide
IdLess_PresenceFirst(k1, k2) ==
    \/ k1.namespace = None /\ k2.namespace # None
    \/ /\ (k1.namespace = None) = (k2.namespace = None)
       /\ \/ StrLess(k1.name, k2.name)
          \/ k1.name = k2.name /\ OptLess(k1.namespace, k2.namespace)

\* lines 187-191: the derived Ord of ObjectId, field by field in declaration order
IdLess(k1, k2) ==
    \/ StrLess(k1.name, k2.name)
    \/ k1.name = k2.name /\ OptLess(k1.namespace, k2.namespace)

\* the least key of a non-empty set of keys
MinKey(ks) == CHOOSE k \in ks : \A o \in ks \ {k} : IdLess(k, o)

\* line 153: data.values().cloned().collect()
RECURSIVE Values(_)
Values(d) ==
    IF DOMAIN d = {} THEN <<>>
    ELSE <<d[MinKey(DOMAIN d)]>> \o Values(Remove(d, MinKey(DOMAIN d)))

-----------------------------------------------------------------------------
(* The initial state: Reflector::new, State::default. *)

\* StateDefault, but the version is the empty string
StateDefault_EmptyVersion == [data |-> EmptyCache, version |-> StringDefault]

\* lines 219-226
StateDefault == [data |-> EmptyCache, version |-> to_string(0)]

\* the number a one-digit marker denotes; the empty marker denotes none and
\* ranks below every digit
MarkerNum(m) == IF m = StringDefault THEN 0 ELSE CHOOSE n \in 0..9 : to_string(n) = m

\* the namespaces a Reflector's Api may be configured with
ApiNamespaces == {None, Some("x")}

\* lines 36-42 and 219-226, for an Api whose namespace is ns
InitWith(ns) ==
    /\ api_namespace = ns
    /\ s_args = None
    /\ data = StateDefault.data
    /\ version = StateDefault.version
    /\ lock = "free"
    /\ p_pc = "idle"
    /\ resource_version = None
    /\ events = <<>>
    /\ ev = None
    /\ p_ret = None
    /\ r_pc = "idle"
    /\ r_new = None
    /\ r_ret = None
    /\ s_pc = "idle"
    /\ s_ret = None
    /\ batch = <<>>
    /\ data0 = EmptyCache
    /\ epochMax = StateDefault.version
    /\ epochOrdered = TRUE
    /\ r_res = None
    /\ r_old = None
    /\ s_overlap = FALSE
    /\ age = "new"
    /\ p_stale = FALSE

\* Reflector::new on any Api of the bounds
Init == \E ns \in ApiNamespaces : InitWith(ns)

\* Reflector::new on an Api with no namespace
InitConc == InitWith(None)

\* the identities of the caches whose order is examined
OrdIds == {[name |-> n, namespace |-> ns] :
              n \in {"a", "b"}, ns \in {None, Some("x"), Some("y")}}

\* the caches over these identities, one object per identity
OrdCaches ==
    {[k \in S |-> Obj(k.name, k.namespace, None, "v1")] : S \in SUBSET OrdIds}

\* a Reflector whose cache a reset() has filled with any of these caches at
\* marker "3", no call being in progress
InitOrd ==
    /\ data \in OrdCaches
    /\ version = "3"
    /\ api_namespace = None
    /\ s_args = None
    /\ lock = "free"
    /\ p_pc = "idle"
    /\ resource_version = None
    /\ events = <<>>
    /\ ev = None
    /\ p_ret = None
    /\ r_pc = "idle"
    /\ r_new = None
    /\ r_ret = None
    /\ s_pc = "idle"
    /\ s_ret = None
    /\ batch = <<>>
    /\ data0 = EmptyCache
    /\ epochMax = "3"
    /\ epochOrdered = TRUE
    /\ r_res = None
    /\ r_old = None
    /\ s_overlap = FALSE
    /\ age = "used"
    /\ p_stale = FALSE

\* no call is in progress
AllIdle == p_pc = "idle" /\ r_pc = "idle" /\ s_pc = "idle"

-----------------------------------------------------------------------------
(* poll(), lines 51-106. *)

\* line 53: self.state.lock()
PollLockVersion ==
    /\ p_pc = "idle"
    /\ lock = "free"
    /\ lock' = "poll"
    /\ p_pc' = "readver"
    /\ age' = IF age = "new" THEN "first_poll" ELSE "used"
    /\ p_stale' = FALSE
    /\ UNCHANGED <<data, version, resource_version, events, ev, p_ret, batch,
                   data0, epochVars, resetVars, stateVars, r_old, apiVars>>

\* PollReadVersion, but the guard is bound to a local and lives on
PollReadVersion_KeepsLock ==
    /\ p_pc = "readver"
    /\ resource_version' = Some(version)
    /\ p_pc' = "watch"
    /\ UNCHANGED <<data, version, lock, events, ev, p_ret, batch, data0, epochVars,
                   resetVars, stateVars, r_old, apiVars, age, p_stale>>

\* line 53: .version.clone(), and the guard dropped at the end of the statement
PollReadVersion ==
    /\ p_pc = "readver"
    /\ resource_version' = Some(version)
    /\ lock' = "free"
    /\ p_pc' = "watch"
    /\ UNCHANGED <<data, version, events, ev, p_ret, batch, data0, epochVars,
                   resetVars, stateVars, r_old, apiVars, age, p_stale>>

\* line 55: the watch call returns one of the sequences B
PollWatchFrom(B) ==
    /\ p_pc = "watch"
    /\ \E b \in B : events' = b /\ batch' = b
    /\ data0' = data
    /\ p_pc' = "next"
    /\ UNCHANGED <<data, version, lock, resource_version, ev, p_ret, epochVars,
                   resetVars, stateVars, r_old, apiVars, age, p_stale>>

\* PollWatchFail, but the State is set to its default before the error is
\* returned
PollWatchFail_ClearsState ==
    /\ p_pc = "watch"
    /\ p_ret' = Some("ErrTransport")
    /\ p_pc' = "done"
    /\ data' = StateDefault.data
    /\ version' = StateDefault.version
    /\ UNCHANGED <<lock, resource_version, events, ev, batch, data0, epochVars,
                   resetVars, stateVars, r_old, apiVars, age, p_stale>>

\* line 55: the watch call fails and ? returns the error
PollWatchFail ==
    /\ p_pc = "watch"
    /\ p_ret' = Some("ErrTransport")
    /\ p_pc' = "done"
    /\ UNCHANGED <<data, version, lock, resource_version, events, ev, batch,
                   data0, epochVars, resetVars, stateVars, r_old, apiVars, age,
                   p_stale>>

\* PollNextEvent, but the items are taken from the end of the sequence
PollNextEvent_TakesLast ==
    /\ p_pc = "next"
    /\ events # <<>>
    /\ ev' = Some(events[Len(events)])
    /\ events' = SubSeq(events, 1, Len(events) - 1)
    /\ p_pc' = "lockev"
    /\ UNCHANGED <<data, version, lock, resource_version, p_ret, batch, data0,
                   epochVars, resetVars, stateVars, r_old, apiVars, age, p_stale>>

\* line 57: the iterator yields its next item
PollNextEvent ==
    /\ p_pc = "next"
    /\ events # <<>>
    /\ ev' = Some(Head(events))
    /\ events' = Tail(events)
    /\ p_pc' = "lockev"
    /\ UNCHANGED <<data, version, lock, resource_version, p_ret, batch, data0,
                   epochVars, resetVars, stateVars, r_old, apiVars, age, p_stale>>

\* lines 57, 105: the iterator is exhausted
PollEnd ==
    /\ p_pc = "next"
    /\ events = <<>>
    /\ p_ret' = Some("Ok")
    /\ p_pc' = "done"
    /\ UNCHANGED <<data, version, lock, resource_version, events, ev, batch,
                   data0, epochVars, resetVars, stateVars, r_old, apiVars, age,
                   p_stale>>

\* line 58
PollLockEvent ==
    /\ p_pc = "lockev"
    /\ lock = "free"
    /\ lock' = "poll"
    /\ p_pc' = "track"
    /\ UNCHANGED <<data, version, resource_version, events, ev, p_ret, batch,
                   data0, epochVars, resetVars, stateVars, r_old, apiVars, age,
                   p_stale>>

\* PollTrackVersion, but the guard is dropped once the version is stored
PollTrackVersion_Unlocks ==
    /\ p_pc = "track"
    /\ version' = TrackVersion(version, ev[1])
    /\ IF ev[1].kind \in EventKinds /\ ev[1].obj.resource_ver # None
       THEN LET m == ev[1].obj.resource_ver[1] IN
            /\ epochOrdered' = (epochOrdered /\ MarkerNum(m) >= MarkerNum(epochMax))
            /\ epochMax' = IF MarkerNum(m) > MarkerNum(epochMax) THEN m ELSE epochMax
       ELSE UNCHANGED epochVars
    /\ p_pc' = "apply"
    /\ lock' = "free"
    /\ UNCHANGED <<data, resource_version, events, ev, p_ret, batch, data0,
                   resetVars, stateVars, r_old, apiVars, age, p_stale>>

\* lines 60-72
PollTrackVersion ==
    /\ p_pc = "track"
    /\ version' = TrackVersion(version, ev[1])
    /\ IF ev[1].kind \in EventKinds /\ ev[1].obj.resource_ver # None
       THEN LET m == ev[1].obj.resource_ver[1] IN
            /\ epochOrdered' = (epochOrdered /\ MarkerNum(m) >= MarkerNum(epochMax))
            /\ epochMax' = IF MarkerNum(m) > MarkerNum(epochMax) THEN m ELSE epochMax
       ELSE UNCHANGED epochVars
    /\ p_pc' = "apply"
    /\ UNCHANGED <<data, lock, resource_version, events, ev, p_ret, batch, data0,
                   resetVars, stateVars, r_old, apiVars, age, p_stale>>

\* lines 74-102: the second match; the guard is dropped when the body ends or
\* returns, and a return drops the iterator
PollApplyEvent ==
    /\ p_pc = "apply"
    /\ data' = ApplyData(data, ev[1])
    /\ lock' = "free"
    /\ ev' = None
    /\ IF LoopReturn(ev[1]) # None
       THEN /\ p_ret' = LoopReturn(ev[1])
            /\ events' = <<>>
            /\ p_pc' = "done"
       ELSE /\ p_pc' = "next"
            /\ UNCHANGED <<p_ret, events>>
    /\ r_old' = IF data' = data THEN r_old ELSE None
    /\ UNCHANGED <<version, resource_version, batch, data0, epochVars,
                   resetVars, stateVars, apiVars, age, p_stale>>

\* the caller takes the Result; the locals of the call are gone
PollReturn ==
    /\ p_pc = "done"
    /\ p_pc' = "idle"
    /\ p_ret' = None
    /\ resource_version' = None
    /\ events' = <<>>
    /\ batch' = <<>>
    /\ data0' = EmptyCache
    /\ age' = IF age = "first_poll" THEN "used" ELSE age
    /\ p_stale' = FALSE
    /\ UNCHANGED <<data, version, lock, ev, epochVars, resetVars, stateVars, r_old,
                   apiVars>>

-----------------------------------------------------------------------------
(* reset(), lines 109-119. *)

\* ResetCall, but with line 112 in force: the State is set to its default
\* before the list request is made
ResetCall_ClearsFirst ==
    /\ r_pc = "idle"
    /\ lock = "free"
    /\ r_pc' = "list"
    /\ r_old' = Some([data |-> data, version |-> version])
    /\ data' = EmptyCache
    /\ version' = to_string(0)
    /\ s_overlap' = FALSE
    /\ age' = "used"
    /\ UNCHANGED <<lock, r_res, r_new, r_ret, s_pc, s_ret, s_args, epochVars, pollVars,
                   apiVars, p_stale>>

\* line 116: get_full_resource_entries is entered and the list request is made
ResetCall ==
    /\ r_pc = "idle"
    /\ r_pc' = "list"
    /\ r_old' = Some([data |-> data, version |-> version])
    /\ s_overlap' = FALSE
    /\ age' = "used"
    /\ UNCHANGED <<data, version, lock, r_res, r_new, r_ret, s_pc, s_ret, s_args,
                   epochVars, pollVars, apiVars, p_stale>>

\* lines 126-145: the list call returns one of the results L; the pair is built
ResetListFrom(L) ==
    /\ r_pc = "list"
    /\ \E res \in L : r_res' = Some(res) /\ r_new' = Some(FullResourceEntries(res))
    /\ r_pc' = "lock"
    /\ UNCHANGED <<data, version, lock, r_ret, r_old, epochVars, pollVars, stateVars,
                   apiVars, age, p_stale>>

\* lines 126, 116: the list call fails and ? returns the error twice
ResetListFail ==
    /\ r_pc = "list"
    /\ r_ret' = Some("ErrTransport")
    /\ r_pc' = "done"
    /\ UNCHANGED <<data, version, lock, r_res, r_new, r_old, epochVars, pollVars,
                   stateVars, apiVars, age, p_stale>>

\* line 117: self.state.lock()
ResetLock ==
    /\ r_pc = "lock"
    /\ lock = "free"
    /\ lock' = "reset"
    /\ r_pc' = "swap"
    /\ UNCHANGED <<data, version, r_res, r_new, r_ret, r_old, epochVars, pollVars,
                   stateVars, apiVars, age, p_stale>>

\* ResetSwap, but the listed entries are inserted into the map that is there
ResetSwap_Merges ==
    /\ r_pc = "swap"
    /\ data' = [k \in (DOMAIN data) \cup (DOMAIN r_new[1].data) |->
                   IF k \in DOMAIN r_new[1].data THEN r_new[1].data[k] ELSE data[k]]
    /\ version' = r_new[1].version
    /\ lock' = "free"
    /\ r_ret' = Some("Ok")
    /\ r_pc' = "done"
    /\ epochMax' = r_new[1].version
    /\ epochOrdered' = TRUE
    /\ p_stale' = (p_stale \/ p_pc \in {"watch", "next", "lockev"})
    /\ UNCHANGED <<r_res, r_new, r_old, pollVars, stateVars, apiVars, age>>

\* ResetSwap, but the map is cleared under one hold of the lock and filled
\* under the next
ResetSwap_ClearsThenFills ==
    /\ r_pc = "swap"
    /\ IF data # EmptyCache /\ r_ret = None /\ r_new[1].data # EmptyCache
          /\ data # r_new[1].data
       THEN /\ data' = EmptyCache
            /\ lock' = "free"
            /\ r_pc' = "lock"
            /\ UNCHANGED <<version, r_ret, epochVars, p_stale>>
       ELSE /\ data' = r_new[1].data
            /\ version' = r_new[1].version
            /\ lock' = "free"
            /\ r_ret' = Some("Ok")
            /\ r_pc' = "done"
            /\ epochMax' = r_new[1].version
            /\ epochOrdered' = TRUE
            /\ p_stale' = (p_stale \/ p_pc \in {"watch", "next", "lockev"})
    /\ UNCHANGED <<r_res, r_new, r_old, pollVars, stateVars, apiVars, age>>

\* lines 117-118: the assignment through the guard, the guard dropped, Ok(())
ResetSwap ==
    /\ r_pc = "swap"
    /\ data' = r_new[1].data
    /\ version' = r_new[1].version
    /\ lock' = "free"
    /\ r_ret' = Some("Ok")
    /\ r_pc' = "done"
    /\ epochMax' = r_new[1].version
    /\ epochOrdered' = TRUE
    /\ p_stale' = (p_stale \/ p_pc \in {"watch", "next", "lockev"})
    /\ UNCHANGED <<r_res, r_new, r_old, pollVars, stateVars, apiVars, age>>

\* the caller takes the Result; the locals of the call are gone
ResetReturn ==
    /\ r_pc = "done"
    /\ r_pc' = "idle"
    /\ r_ret' = None
    /\ r_res' = None
    /\ r_new' = None
    /\ r_old' = None
    /\ UNCHANGED <<data, version, lock, epochVars, pollVars, stateVars, apiVars, age,
                   p_stale>>

-----------------------------------------------------------------------------
(* state(), lines 151-154. *)

\* line 151: state() is called
StateCall ==
    /\ s_pc = "idle"
    /\ s_pc' = "lock"
    /\ s_overlap' = (r_pc \in {"list", "lock", "swap"})
    /\ UNCHANGED <<data, version, lock, s_ret, s_args, epochVars, pollVars,
                   resetVars, r_old, apiVars, age, p_stale>>

\* line 152: self.state.lock()
StateLock ==
    /\ s_pc = "lock"
    /\ lock = "free"
    /\ lock' = "state"
    /\ s_pc' = "copy"
    /\ UNCHANGED <<data, version, s_ret, s_overlap, s_args, epochVars, pollVars,
                   resetVars, r_old, apiVars, age, p_stale>>

\* line 153, and the guard dropped on return
StateCopy ==
    /\ s_pc = "copy"
    /\ s_ret' = Some(Values(data))
    /\ lock' = "free"
    /\ s_pc' = "done"
    /\ UNCHANGED <<data, version, s_overlap, s_args, epochVars, pollVars, resetVars,
                   r_old, apiVars, age, p_stale>>

\* the caller takes the Vec
StateReturn ==
    /\ s_pc = "done"
    /\ s_pc' = "idle"
    /\ s_ret' = None
    /\ s_overlap' = FALSE
    /\ UNCHANGED <<data, version, lock, s_args, epochVars, pollVars, resetVars, r_old,
                   apiVars, age, p_stale>>

-----------------------------------------------------------------------------
(* get() and get_within(), lines 161-181. *)

\* the names and namespaces looked up
LookupNames == {"a", "b"}
LookupNamespaces == {"x", "y"}

\* lines 162-165 and 176-179: the ObjectId looked up, ns being the namespace
\* of the Reflector's Api
GetId(args, ns) ==
    IF args.op = "get"
    THEN [name |-> args.name, namespace |-> ns]
    ELSE [name |-> args.name, namespace |-> Some(args.ns)]

\* CacheGet, but the first entry of that name is returned, whatever its namespace
CacheGet_ByName(d, id) ==
    IF \E k \in DOMAIN d : k.name = id.name
    THEN Some(d[MinKey({k \in DOMAIN d : k.name = id.name})])
    ELSE None

\* lines 167 and 180: data.get(&id).map(Clone::clone)
CacheGet(d, id) == IF id \in DOMAIN d THEN Some(d[id]) ELSE None

\* line 161: get(name) is called
GetCall(name) ==
    /\ s_pc = "idle"
    /\ s_pc' = "g_lock"
    /\ s_args' = Some([op |-> "get", name |-> name, ns |-> ""])
    /\ UNCHANGED <<data, version, lock, s_ret, s_overlap, epochVars, pollVars,
                   resetVars, r_old, apiVars, age, p_stale>>

\* line 175: get_within(name, ns) is called
GetWithinCall(name, ns) ==
    /\ s_pc = "idle"
    /\ s_pc' = "g_lock"
    /\ s_args' = Some([op |-> "get_within", name |-> name, ns |-> ns])
    /\ UNCHANGED <<data, version, lock, s_ret, s_overlap, epochVars, pollVars,
                   resetVars, r_old, apiVars, age, p_stale>>

\* lines 167 and 180: self.state.lock()
GetLock ==
    /\ s_pc = "g_lock"
    /\ lock = "free"
    /\ lock' = "state"
    /\ s_pc' = "g_get"
    /\ UNCHANGED <<data, version, s_ret, s_overlap, s_args, epochVars, pollVars,
                   resetVars, r_old, apiVars, age, p_stale>>

\* lines 167 and 180: the lookup, and the guard dropped at the end of the statement
GetLookup ==
    /\ s_pc = "g_get"
    /\ s_ret' = Some(CacheGet(data, GetId(s_args[1], api_namespace)))
    /\ lock' = "free"
    /\ s_pc' = "g_done"
    /\ UNCHANGED <<data, version, s_overlap, s_args, epochVars, pollVars, resetVars,
                   r_old, apiVars, age, p_stale>>

\* the caller takes the Option
GetReturn ==
    /\ s_pc = "g_done"
    /\ s_pc' = "idle"
    /\ s_ret' = None
    /\ s_args' = None
    /\ UNCHANGED <<data, version, lock, s_overlap, epochVars, pollVars, resetVars,
                   r_old, apiVars, age, p_stale>>

-----------------------------------------------------------------------------
(* Specifications. *)

\* line 55, for every sequence of the bounds
PollWatch == PollWatchFrom(Batches)

\* lines 126-145, for every list result of the bounds
ResetList == ResetListFrom(ListResults)

\* the steps that continue a call in progress, but for the two network calls
Continue ==
    \/ PollReadVersion
    \/ PollWatchFail
    \/ PollNextEvent
    \/ PollEnd
    \/ PollLockEvent
    \/ PollTrackVersion
    \/ PollApplyEvent
    \/ PollReturn
    \/ ResetListFail
    \/ ResetLock
    \/ ResetSwap
    \/ ResetReturn
    \/ StateLock
    \/ StateCopy
    \/ StateReturn

\* the steps that continue a lookup in progress
ContinueGet ==
    \/ GetLock
    \/ GetLookup
    \/ GetReturn

\* one caller: poll(), reset(), state(), get() and get_within() are called
\* one after the other
Next ==
    \/ AllIdle /\ PollLockVersion
    \/ AllIdle /\ ResetCall
    \/ AllIdle /\ StateCall
    \/ AllIdle /\ \E n \in LookupNames : GetCall(n)
    \/ AllIdle /\ \E n \in LookupNames, ns \in LookupNamespaces : GetWithinCall(n, ns)
    \/ ContinueGet
    \/ PollWatch
    \/ ResetList
    \/ Continue

Spec == Init /\ [][Next]_vars

\* line 55, for the sequences of the interleaved runs
ConcPollWatch == PollWatchFrom(ConcBatches)

\* lines 126-145, for the list results of the interleaved runs
ConcResetList == ResetListFrom(ConcListResults)

\* three callers on clones of one Reflector: one polls, one resets, one reads
\* with state()
NextConc ==
    \/ PollLockVersion
    \/ ResetCall
    \/ StateCall
    \/ ConcPollWatch
    \/ ConcResetList
    \/ Continue

SpecConc == InitConc /\ [][NextConc]_vars

\* one caller reads a filled cache with state()
NextOrd ==
    \/ StateCall
    \/ StateLock
    \/ StateCopy
    \/ StateReturn

SpecOrd == InitOrd /\ [][NextOrd]_vars

-----------------------------------------------------------------------------
(* The claims.  The formulas below read the state and the history variables; *)
(* the helpers here are theirs and model no code.                            *)

\* how many items of the batch have gone through the loop body, while the
\* loop is between two items
Applied == Len(batch) - Len(events)

\* the k-th item of the batch is one of the four object events of kind kd
IsEvent(k, kd) == k \in 1..Len(batch) /\ batch[k].kind = kd

\* the step of poll() that applies an item of kind kd to data (lines 74-102)
AppliesKind(kd) == p_pc = "apply" /\ p_pc' # "apply" /\ ev[1].kind = kd

\* every entry of d but the one at k is in d2 with the same value
SameButAt(d, d2, k) ==
    /\ (DOMAIN d) \ {k} = (DOMAIN d2) \ {k}
    /\ \A x \in (DOMAIN d) \ {k} : d2[x] = d[x]

\* C1: an Added event inserts the object only when its identity is absent and
\* otherwise leaves the stored value as it was, so that two Added events for
\* one absent identity leave the cache holding the first object.
C1_AddedInsertsIfAbsent ==
    /\ [][AppliesKind("Added") =>
            LET k == key_for(ev[1].obj) IN
            /\ SameButAt(data, data', k)
            /\ k \in DOMAIN data'
            /\ data'[k] = IF k \in DOMAIN data THEN data[k] ELSE ev[1].obj]_vars
    /\ [](p_pc = "next" /\ Applied = 2 /\ IsEvent(1, "Added") /\ IsEvent(2, "Added")
          /\ key_for(batch[1].obj) = key_for(batch[2].obj)
          /\ key_for(batch[1].obj) \notin DOMAIN data0
          => data = Insert(data0, key_for(batch[1].obj), batch[1].obj))

\* C1 witness: the same identity was added twice with two different objects
\* and the cache holds the first.
C1_Witness ==
    /\ p_pc = "next" /\ Applied = 2
    /\ IsEvent(1, "Added") /\ IsEvent(2, "Added")
    /\ key_for(batch[1].obj) = key_for(batch[2].obj)
    /\ batch[1].obj # batch[2].obj
    /\ key_for(batch[1].obj) \notin DOMAIN data0
    /\ data[key_for(batch[1].obj)] = batch[1].obj

\* C2: a Modified event overwrites the value of an identity that is present
\* and, for an absent identity, inserts nothing: the set of keys never changes.
C2_ModifiedNeverInserts ==
    [][AppliesKind("Modified") =>
          LET k == key_for(ev[1].obj) IN
          /\ DOMAIN data' = DOMAIN data
          /\ SameButAt(data, data', k)
          /\ k \in DOMAIN data => data'[k] = ev[1].obj]_vars

\* C2 witness: a Modified event for an identity that was absent has been
\* applied, and the identity is still absent.
C2_Witness ==
    /\ p_pc = "next" /\ Applied = 1 /\ IsEvent(1, "Modified")
    /\ key_for(batch[1].obj) \notin DOMAIN data0
    /\ key_for(batch[1].obj) \notin DOMAIN data
    /\ data0 # EmptyCache

\* C3: a Deleted event removes the entry of its identity and leaves every
\* other entry as it was; for an absent identity data is unchanged; in both
\* cases the loop goes on and poll() returns nothing from that event.
C3_DeletedRemovesOnlyItsKey ==
    [][AppliesKind("Deleted") =>
          LET k == key_for(ev[1].obj) IN
          /\ k \notin DOMAIN data'
          /\ SameButAt(data, data', k)
          /\ k \notin DOMAIN data => data' = data
          /\ p_pc' = "next" /\ p_ret' = None]_vars

\* C3 witness: a poll() whose only event deleted an absent identity ended
\* with Ok, the cache (not empty) being what it was.
C3_Witness ==
    /\ p_pc = "done" /\ p_ret = Some("Ok")
    /\ Len(batch) = 1 /\ IsEvent(1, "Deleted")
    /\ key_for(batch[1].obj) \notin DOMAIN data0
    /\ data0 # EmptyCache
    /\ data = data0

\* the marker of the last item of s that carries one, v if none does
RECURSIVE LastMarker(_, _)
LastMarker(s, v) ==
    IF s = <<>> THEN v
    ELSE LET e == s[Len(s)] IN
         IF e.kind \in EventKinds /\ e.obj.resource_ver # None
         THEN e.obj.resource_ver[1]
         ELSE LastMarker(SubSeq(s, 1, Len(s) - 1), v)

\* C4: between two items of an error-free prefix, and when poll() returns
\* Ok, the stored version is the marker of the last applied event that
\* carried one, or the version poll() started from if none did.
C4_VersionIsLastMarker ==
    /\ p_pc = "next" =>
          version = LastMarker(SubSeq(batch, 1, Applied), resource_version[1])
    /\ p_pc = "done" /\ p_ret = Some("Ok") =>
          version = LastMarker(batch, resource_version[1])

\* C4 witness: a Bookmark with a marker, then a Deleted of an absent identity
\* with another marker: the version is the Deleted event's.
C4_Witness ==
    /\ p_pc = "next" /\ Applied = 2
    /\ IsEvent(1, "Bookmark") /\ IsEvent(2, "Deleted")
    /\ batch[1].obj.resource_ver # None
    /\ batch[2].obj.resource_ver # None
    /\ batch[1].obj.resource_ver # batch[2].obj.resource_ver
    /\ key_for(batch[2].obj) \notin DOMAIN data0
    /\ version = batch[2].obj.resource_ver[1]
    /\ version # resource_version[1]

\* C5 as stated: the stored version is at every moment the highest marker
\* observed since the last snapshot (and so never decreases between resets).
C5_VersionIsHighestMarker == version = epochMax

\* C5 amended: as long as no event of the epoch carried a marker lower than
\* one observed before it, the stored version is the highest marker observed
\* since the last snapshot.
C5_VersionIsHighestIfOrdered == epochOrdered => version = epochMax

\* C5 witness: two events with rising markers have been applied and the
\* version is the higher one.
C5_Witness ==
    /\ p_pc = "next" /\ Applied = 2 /\ epochOrdered
    /\ batch[1].kind \in EventKinds /\ batch[2].kind \in EventKinds
    /\ batch[1].obj.resource_ver = Some("1")
    /\ batch[2].obj.resource_ver = Some("2")
    /\ version = "2"

\* the index of the first Error event or transport error of s, 0 if none
FirstError(s) ==
    IF \E i \in 1..Len(s) : s[i].kind \notin EventKinds
    THEN CHOOSE i \in 1..Len(s) :
            /\ s[i].kind \notin EventKinds
            /\ \A j \in 1..(i - 1) : s[j].kind \in EventKinds
    ELSE 0

\* the per-event rules applied to d for the object events s, left to right
RECURSIVE ApplyAll(_, _)
ApplyAll(d, s) ==
    IF s = <<>> THEN d ELSE ApplyAll(ApplyData(d, Head(s)), Tail(s))

\* C6: when the watch sequence holds an error item, poll() returns that
\* failure with data and version being what the events before the first error
\* item made them; the loop is never between two items past an error item.
C6_ErrorEndsPollKeepingProgress ==
    LET i == FirstError(batch) IN
    /\ p_pc = "next" /\ i # 0 => Applied < i
    /\ p_pc = "done" /\ i # 0 =>
          /\ p_ret = Some(IF batch[i].kind = "Error" THEN "ErrApi" ELSE "ErrTransport")
          /\ data = ApplyAll(data0, SubSeq(batch, 1, i - 1))
          /\ version = LastMarker(SubSeq(batch, 1, i - 1), resource_version[1])
          /\ events = <<>>
          /\ lock = "free"

\* C6 witness: Added of an absent object with marker 2, then an Error event:
\* the object is cached, the version is 2 and poll() returned the failure.
C6_Witness ==
    /\ p_pc = "done" /\ p_ret = Some("ErrApi")
    /\ Len(batch) = 2 /\ IsEvent(1, "Added") /\ batch[2] = ErrorEvent
    /\ key_for(batch[1].obj) \notin DOMAIN data0
    /\ data = Insert(data0, key_for(batch[1].obj), batch[1].obj)
    /\ batch[1].obj.resource_ver = Some("2")
    /\ version = "2" /\ resource_version # Some("2")

\* the identities of the objects of a list
KeysOf(items) == {key_for(items[i]) : i \in 1..Len(items)}

\* C7: when reset() returns Ok, data holds an entry for exactly the
\* identities of the listed objects, each entry being a listed object of that
\* identity, and the version is the marker the list carried.
C7_ResetInstallsSnapshot ==
    r_pc = "done" /\ r_ret = Some("Ok") =>
        LET items == r_res[1].items IN
        /\ DOMAIN data = KeysOf(items)
        /\ \A k \in DOMAIN data :
              \E i \in 1..Len(items) : key_for(items[i]) = k /\ data[k] = items[i]
        /\ r_res[1].resource_version # None => version = r_res[1].resource_version[1]

\* C7 witness: a reset() whose list lacks an identity that was cached and
\* holds another object for an identity that was, with a marker lower than
\* the version stored before.
C7_Witness ==
    /\ r_pc = "done" /\ r_ret = Some("Ok")
    /\ \E k \in DOMAIN r_old[1].data : k \notin DOMAIN data
    /\ \E k \in DOMAIN r_old[1].data : k \in DOMAIN data /\ data[k] # r_old[1].data[k]
    /\ r_res[1].resource_version # None
    /\ MarkerNum(version) < MarkerNum(r_old[1].version)

\* C8: when the list request fails, reset() returns the failure and data and
\* version are what they were when reset() was called.
C8_FailedResetKeepsCache ==
    r_pc = "done" /\ r_ret # Some("Ok") =>
        /\ r_ret = Some("ErrTransport")
        /\ data = r_old[1].data
        /\ version = r_old[1].version
        /\ r_new = None

\* C8 witness: a failed reset() over a cache that was not the default one.
C8_Witness ==
    /\ r_pc = "done" /\ r_ret = Some("ErrTransport")
    /\ data # EmptyCache /\ version # StateDefault.version
    /\ data = r_old[1].data

\* C9: a state() call made while a reset() is in progress, with no poll()
\* changing data since that reset() was called, returns all the values cached
\* when reset() was called or all the values of the new cache; and reset()
\* changes the State in one step only, the assignment of the whole new pair
\* made while it holds the lock.
C9_StateSeesOldOrNewCache ==
    /\ [](s_pc = "done" /\ s_overlap /\ r_old # None =>
            \/ s_ret[1] = Values(r_old[1].data)
            \/ r_ret = Some("Ok") /\ s_ret[1] = Values(r_new[1].data))
    /\ [][r_pc' # r_pc =>
            IF r_pc = "swap"
            THEN /\ lock = "reset"
                 /\ data' = r_new[1].data /\ version' = r_new[1].version
                 /\ r_pc' = "done"
            ELSE data' = data /\ version' = version]_vars

\* C9 witness: a state() call made during a reset() returned the whole new
\* cache, which is not empty and differs from the non-empty old one.
C9_Witness ==
    /\ s_pc = "done" /\ s_overlap /\ r_old # None
    /\ r_pc = "done" /\ r_ret = Some("Ok")
    /\ r_old[1].data # EmptyCache /\ r_new[1].data # EmptyCache
    /\ DOMAIN r_old[1].data # DOMAIN r_new[1].data
    /\ s_ret[1] = Values(r_new[1].data)

\* C10 as stated: after a successful reset() whose list carried no marker the
\* version is the version of a freshly constructed cache.
C10_AbsentMarkerGivesZero ==
    r_pc = "done" /\ r_ret = Some("Ok") /\ r_res[1].resource_version = None =>
        version = StateDefault.version

\* C10 amended: after a successful reset() whose list carried no marker the
\* version is the empty string, which is not the version "0" of a freshly
\* constructed cache.
C10_AbsentMarkerGivesEmpty ==
    r_pc = "done" /\ r_ret = Some("Ok") /\ r_res[1].resource_version = None =>
        version = "" /\ version # StateDefault.version

\* C10 witness: a successful reset() whose list carried no marker, over a
\* cache whose version was a marker.
C10_Witness ==
    /\ r_pc = "done" /\ r_ret = Some("Ok")
    /\ r_res[1].resource_version = None
    /\ r_old[1].version = "2"
    /\ version = ""

\* C11: the two steps that take a Bookmark event through the loop body leave
\* data as it is; the first leaves the version alone or sets it to the
\* marker the event carries, the second leaves it alone; so after a Bookmark
\* as first item data is what it was when the watch began.
C11_BookmarkTouchesVersionOnly ==
    /\ [][(p_pc \in {"track", "apply"}) /\ p_pc' # p_pc /\ ev[1].kind = "Bookmark" =>
            data' = data /\ version' = (IF p_pc = "track" /\ ev[1].obj.resource_ver # None
                                         THEN ev[1].obj.resource_ver[1]
                                         ELSE version)]_vars
    /\ [](p_pc = "next" /\ Applied = 1 /\ IsEvent(1, "Bookmark") => data = data0)

\* C11 witness: a Bookmark for an identity that is not cached, carrying a
\* marker, has been applied to a cache that is not empty: the version is the
\* marker and the identity is still not cached.
C11_Witness ==
    /\ p_pc = "next" /\ Applied = 1 /\ IsEvent(1, "Bookmark")
    /\ data0 # EmptyCache
    /\ key_for(batch[1].obj) \notin DOMAIN data0
    /\ key_for(batch[1].obj) \notin DOMAIN data
    /\ batch[1].obj.resource_ver # None
    /\ version = batch[1].obj.resource_ver[1]
    /\ version # resource_version[1]

\* the value cached for the identity (name n, namespace ns), as Option
Cached(n, ns) ==
    IF \E k \in DOMAIN data : k.name = n /\ k.namespace = ns
    THEN Some(data[CHOOSE k \in DOMAIN data : k.name = n /\ k.namespace = ns])
    ELSE None

\* C12: get_within(name, ns) returns the value cached for the identity of
\* that name and exactly that namespace, none if there is no such entry;
\* get(name) returns the value cached for that name and the namespace of the
\* Reflector's Api; and no step of a lookup changes data or version.
C12_LookupMatchesFullIdentity ==
    /\ [](s_pc = "g_done" =>
            s_ret[1] = Cached(s_args[1].name,
                              IF s_args[1].op = "get_within"
                              THEN Some(s_args[1].ns) ELSE api_namespace))
    /\ [][s_pc' # s_pc => data' = data /\ version' = version]_vars

\* C12 witness: "a" is cached in namespace "x" and get_within("a", "y")
\* returned none.
C12_Witness ==
    /\ s_pc = "g_done"
    /\ s_args[1].op = "get_within" /\ s_args[1].name = "a" /\ s_args[1].ns = "y"
    /\ [name |-> "a", namespace |-> Some("x")] \in DOMAIN data
    /\ s_ret[1] = None

\* the version rule applied to v for the object events s, left to right
RECURSIVE TrackAll(_, _)
TrackAll(v, s) ==
    IF s = <<>> THEN v ELSE TrackAll(TrackVersion(v, Head(s)), Tail(s))

\* C13: when poll() returns from a watch sequence without error item (a
\* sequence of events, or an empty one that let it return Ok), with no
\* other writer, it returns Ok, and data and version are the per-event
\* rules applied to the cache it found, one event after the other in the
\* order received; a Modified then a Deleted of the one cached identity
\* leave the cache empty at the marker of the Deleted.
C13_PollFoldsLeftToRight ==
    p_pc = "done" /\ FirstError(batch) = 0 /\ (batch # <<>> \/ p_ret = Some("Ok")) =>
        /\ p_ret = Some("Ok")
        /\ data = ApplyAll(data0, batch)
        /\ version = TrackAll(resource_version[1], batch)
        /\ ( /\ Len(batch) = 2
             /\ batch[1].kind = "Modified" /\ batch[2].kind = "Deleted"
             /\ DOMAIN data0 = {key_for(batch[1].obj)}
             /\ key_for(batch[2].obj) = key_for(batch[1].obj)
             /\ batch[2].obj.resource_ver # None
             => data = EmptyCache /\ version = batch[2].obj.resource_ver[1] )

\* C13 witness: poll() returned Ok from a Modified then a Deleted of the one
\* cached identity, both carrying a marker, the Modified's being another one.
C13_Witness ==
    /\ p_pc = "done" /\ p_ret = Some("Ok")
    /\ Len(batch) = 2
    /\ batch[1].kind = "Modified" /\ batch[2].kind = "Deleted"
    /\ DOMAIN data0 = {key_for(batch[1].obj)}
    /\ key_for(batch[2].obj) = key_for(batch[1].obj)
    /\ batch[1].obj.resource_ver # None /\ batch[2].obj.resource_ver # None
    /\ batch[1].obj.resource_ver # batch[2].obj.resource_ver
    /\ data = EmptyCache /\ version = batch[2].obj.resource_ver[1]

\* C14: until poll() or reset() is first called the cache is empty at
\* version "0", state() returns no value and get and get_within return
\* none; and a poll() that is the first call requests its watch from "0".
C14_NewReflectorIsEmptyAtZero ==
    /\ age = "new" =>
          /\ data = EmptyCache /\ version = "0"
          /\ s_pc = "done" => s_ret = Some(<<>>)
          /\ s_pc = "g_done" => s_ret = Some(None)
    /\ age = "first_poll" /\ p_pc \notin {"idle", "readver"} =>
          resource_version = Some("0")

\* C14 witness: the first call is a poll(), its watch requested from "0"
\* has delivered events and one of them has been applied.
C14_Witness ==
    /\ age = "first_poll" /\ p_pc = "next"
    /\ resource_version = Some("0")
    /\ Applied = 1 /\ data # EmptyCache /\ version # "0"

\* poll() is inside the application of one event: the lock is taken and
\* the version rule or the data rule of the event is still to be applied
MidEvent == p_pc \in {"track", "apply"}

\* C15: from the moment poll() takes the lock for an event until the data
\* rule of that event is applied, poll() holds the lock, no state() is
\* copying and no reset() is replacing the State, and a caller waiting for
\* the lock keeps waiting; when poll() frees the lock, the event's marker
\* (if it carries one) is the stored version and data is what the event's
\* rule makes of it.
C15_EventCommittedUnderOneLock ==
    /\ [](MidEvent => lock = "poll" /\ s_pc # "copy" /\ r_pc # "swap")
    /\ [][MidEvent => /\ s_pc = "lock" => s_pc' = "lock"
                      /\ r_pc = "lock" => r_pc' = "lock"]_vars
    /\ [][lock = "poll" /\ lock' # lock /\ p_pc # "readver" =>
            /\ p_pc = "apply"
            /\ version' = version /\ version = TrackVersion(version, ev[1])
            /\ data' = ApplyData(data, ev[1])]_vars

\* C15 witness: the marker of an Added event is stored, its object is not
\* yet in data, and both a state() and a reset() wait for the lock.
C15_Witness ==
    /\ p_pc = "apply" /\ ev[1].kind = "Added"
    /\ ev[1].obj.resource_ver = Some(version)
    /\ resource_version # Some(version)
    /\ key_for(ev[1].obj) \notin DOMAIN data
    /\ s_pc = "lock" /\ r_pc = "lock"

\* C16: poll() holds the lock only while it reads the version and while it
\* applies one event, so not while its watch request is made, not while it
\* waits for the next item of the watch sequence and not once it has
\* returned, with Ok or with a failure; reset() holds it only for the swap,
\* so not while its list request is made.
C16_NoLockAcrossNetworkCall ==
    /\ p_pc \in {"idle", "watch", "next", "lockev", "done"} => lock # "poll"
    /\ r_pc \in {"idle", "list", "lock", "done"} => lock # "reset"

\* C16 witness: state() copies the cache under the lock while poll() waits
\* for its watch response and reset() for its list response.
C16_Witness ==
    /\ p_pc = "watch" /\ r_pc = "list"
    /\ s_pc = "copy" /\ lock = "state"

\* the identity of the i-th value state() returned
RetKey(i) == key_for(s_ret[1][i])

\* k1 is before k2 when identities without namespace come first (or last,
\* if noneFirst is FALSE), then the name decides, then the namespace value
PresenceNameValueLess(k1, k2, noneFirst) ==
    LET p1 == k1.namespace # None
        p2 == k2.namespace # None
    IN  \/ p1 # p2 /\ (IF noneFirst THEN p2 ELSE p1)
        \/ p1 = p2 /\ StrLess(k1.name, k2.name)
        \/ p1 = p2 /\ k1.name = k2.name /\ p1 /\ StrLess(k1.namespace[1], k2.namespace[1])

\* k1 is before k2 when its name is lower, or the names are equal and it has
\* no namespace while k2 has one, or both have one and k1's is lower
NameThenNamespaceLess(k1, k2) ==
    \/ StrLess(k1.name, k2.name)
    \/ /\ k1.name = k2.name
       /\ \/ k1.namespace = None /\ k2.namespace # None
          \/ /\ k1.namespace # None /\ k2.namespace # None
             /\ StrLess(k1.namespace[1], k2.namespace[1])

\* C17, as stated: state() returns the values in the order that compares
\* namespace presence first (the identities without namespace all first, or
\* all last), then the name, then the namespace value.
C17_OrderIsPresenceThenName ==
    s_pc = "done" =>
        \E noneFirst \in BOOLEAN :
            \A i, j \in 1..Len(s_ret[1]) :
                i < j => PresenceNameValueLess(RetKey(i), RetKey(j), noneFirst)

\* C17, amended: state() returns one value for each cached identity, in
\* the order that compares the name first and then the namespace, an absent
\* namespace being below every present one and present ones comparing by
\* value.
C17_OrderIsNameThenNamespace ==
    s_pc = "done" =>
        /\ Len(s_ret[1]) = Cardinality(DOMAIN data)
        /\ \A i \in 1..Len(s_ret[1]) :
              RetKey(i) \in DOMAIN data /\ s_ret[1][i] = data[RetKey(i)]
        /\ \A i, j \in 1..Len(s_ret[1]) :
              i < j => NameThenNamespaceLess(RetKey(i), RetKey(j))

\* C17 witness: state() returned the values of a/x, a/y, b and b/x, a value
\* with namespace before one without, and namespace x before y.
C17_Witness ==
    /\ s_pc = "done"
    /\ Len(s_ret[1]) = 4
    /\ RetKey(1) = [name |-> "a", namespace |-> Some("x")]
    /\ RetKey(2) = [name |-> "a", namespace |-> Some("y")]
    /\ RetKey(3) = [name |-> "b", namespace |-> None]
    /\ RetKey(4) = [name |-> "b", namespace |-> Some("x")]

\* C18: when a poll() and a reset() have both returned, the reset() with Ok
\* and after the poll() had read the version its watch resumes from, then
\* data and version are the snapshot that reset() installed: no event of
\* that watch has altered them.
C18_StaleWatchLeavesSnapshot ==
    p_pc = "done" /\ p_stale /\ r_pc = "done" /\ r_ret = Some("Ok") =>
        data = r_new[1].data /\ version = r_new[1].version

\* poll() has returned the failure of its watch request: no sequence was
\* delivered
WatchFailed == p_pc = "done" /\ p_ret = Some("ErrTransport") /\ batch = <<>>

\* C19: with one caller, no step of poll() from its call to the failure
\* of the watch request changes data or version, the step on which the
\* request fails makes poll() return that failure, and the stored version
\* is then still the one this poll() read, which the next poll() will read.
C19_FailedWatchChangesNothing ==
    /\ [][(p_pc \in {"idle", "readver", "watch"}) /\ p_pc' \in {"readver", "watch", "done"} =>
            /\ data' = data /\ version' = version
            /\ p_pc' = "done" => p_ret' = Some("ErrTransport") /\ lock' = "free"]_vars
    /\ [](WatchFailed => events = <<>> /\ version = resource_version[1])

\* C19 witness: the watch request of a poll() on a filled cache, at a
\* version that is not the initial one, has failed.
C19_Witness ==
    /\ WatchFailed
    /\ data # EmptyCache
    /\ version # StateDefault.version /\ version = resource_version[1]

\* the position of the last item of the list that has identity k
LastOf(items, k) ==
    CHOOSE i \in 1..Len(items) :
        /\ key_for(items[i]) = k
        /\ \A j \in (i + 1)..Len(items) : key_for(items[j]) # k

\* C20: when reset() returns Ok, the cache holds one entry for each
\* distinct identity of the list, as many entries as there are distinct
\* identities, and the value of each is the last item of that identity in
\* list order.
C20_LastListedDuplicateWins ==
    r_pc = "done" /\ r_ret = Some("Ok") =>
        LET items == r_res[1].items IN
        /\ DOMAIN data = KeysOf(items)
        /\ Cardinality(DOMAIN data) = Cardinality(KeysOf(items))
        /\ \A k \in DOMAIN data : data[k] = items[LastOf(items, k)]

\* C20 witness: the list held two different objects of one identity, and
\* the cache holds the second and nothing else.
C20_Witness ==
    /\ r_pc = "done" /\ r_ret = Some("Ok")
    /\ Len(r_res[1].items) = 2
    /\ key_for(r_res[1].items[1]) = key_for(r_res[1].items[2])
    /\ r_res[1].items[1] # r_res[1].items[2]
    /\ Cardinality(DOMAIN data) = 1
    /\ data[key_for(r_res[1].items[2])] = r_res[1].items[2]

=============================================================================
